---- MODULE Spec2Model ----
(***************************************************************************)
(* A model of package synced's instrumented locks: Mutex (src/mutex.go)    *)
(* and RWMutex (src/rwmutex.go), with the watchdog goroutine that the      *)
(* default AfterLock callback starts and the default BeforeUnlock callback *)
(* cancels; and of the package's two small synchronized containers, Queue   *)
(* and Counter (QueueSpec, CounterSpec).                                   *)
(*                                                                         *)
(* One RWMutex value is modelled; its embedded *Mutex is the Mutex.  The   *)
(* callers are goroutines ("threads") that call Lock / LockWithTag / RLock *)
(* and the matching Unlock / RUnlock; MisuseSpec adds callers that call    *)
(* Unlock / RUnlock without holding the primitive.                         *)
(*                                                                         *)
(* Library facts the model relies on (Go >= 1.15, which time.Ticker.Reset  *)
(* needs):                                                                 *)
(*  - sync.RWMutex.Unlock on a lock not held for writing, and RUnlock on a *)
(*    lock with no reader, end the process with a run-time fatal error     *)
(*    ("fatal error: sync: Unlock of unlocked RWMutex").  It is a runtime  *)
(*    throw, not a panic: recover() does not see it.                       *)
(*  - time.Ticker.Reset(d) panics when d <= 0.                             *)
(*  - a Ticker's channel buffers one tick; Stop does not drain it.         *)
(*  - select with several ready cases picks one of them at random.         *)
(***************************************************************************)
EXTENDS Integers, Sequences, FiniteSets, TLC

\* ------------------------------------------------------------------ bounds
NumThreads == 2
MaxCalls == 2
MaxTime == 4
WarnAfterT == 2
Increment == 1
MaxQueueMax == 2
QueueCap == 3
MaxCounterCalls == 3
MaxInitialValue == 1

Threads == 1..NumThreads
Tags == {"x"}

NoOne == 0
NoTag == "nil"
ZeroTime == 0
NoWarn == [elapsed |-> -1, late |-> FALSE, stale |-> FALSE]
NoneSeen == [al |-> "unseen", au |-> "unseen"]

\* the objects pushed to the Queue, and the arguments given to Counter.Add / Set
Objects == {"a", "b"}
CounterArgs == {-1, 2}

\* const ( modeNormal = iota; modeDrop )
modeNormal == 0
modeDrop == 1

\* the errors of the Queue, and the nil error / nil object
ErrQueueIsEmpty == "queue is empty"
ErrQueueOverflowed == "queue overflowed"
Nil == "nil"

HookNames ==
  {"BeforeLock", "AfterLock", "BeforeUnlock", "AfterUnlock", "AfterUnlockRecover",
   "BeforeRLock", "AfterRLock", "BeforeRUnlock", "AfterRUnlock", "AfterRUnlockRecover"}

VARIABLES
  hooks,        \* the ten hook fields: "nil", "default" or "custom"
  warnAfter,    \* p.Timeout, captured by the default callbacks
  timeout,      \* Mutex.timeout
  mu,           \* Mutex.mu, the sync.RWMutex: [writer, readers]
  callbacksMu,  \* Mutex.callbacksMu: the thread holding it, or NoOne
  lockTag,      \* Mutex.lockTag
  lockedAt,     \* Mutex.lockedAt (ZeroTime is time.Time{})
  ticker,       \* Mutex.ticker: [exists, running, next, C]
  closeC,       \* Mutex.closeC: the identity of the current channel
  tasks,        \* the live watchdog goroutines
  pc,           \* where each thread is
  op,           \* the call each thread is in
  tagArg,       \* the tag argument of lock()
  cycles,       \* calls begun by each thread
  now,          \* the clock
  crashed,      \* [how, by]: how is "no", or how the process ended ("panic",
                \* "fatal") in thread by
  counter,      \* the callers' shared counter
  tmp,          \* each caller's local copy of the counter
  nExcl,        \* exclusive cycles begun
  hookLog,      \* per thread: hooks fired in its current cycle, with the tag they saw
  relTag,       \* per thread: did another thread write the tag since it released
  warned,       \* per thread: a warning was logged for its current hold
  lastWarn,     \* the last warning logged since the last call began: [elapsed,
                \* late, stale], or NoWarn; stale: lockedAt was cleared when it
                \* was logged
  tagSeen,      \* per thread: the tag when its AfterLock and AfterUnlock fired
  queue,        \* the Queue: [queue, maxLen, mode]
  qLast,        \* the last Queue call: [op, arg, before, err, val]
  count,        \* Counter.count
  cmu,          \* the Counter's embedded sync.Mutex: its holder, or NoOne
  cth,          \* per thread: its Counter call [pc, op, arg, v], and the count
                \* before its change
  cLast,        \* the last Counter call returned: [op, arg, ret], the count
                \* before its change and the count at its return
  cHist         \* [init, n, rets, onlyInc]: the Counter's initial value, the calls
                \* begun, the values the Inc() calls returned, were all calls Inc()

\* the configuration, fixed at construction
cfg == <<hooks, warnAfter, timeout>>
\* the watchdog's state
wd == <<lockedAt, ticker, closeC, tasks>>
\* each caller's call
call == <<op, tagArg, cycles, nExcl>>
\* what the callers and the log observe
obs == <<counter, tmp, hookLog, tagSeen, relTag, warned, lastWarn>>

\* the Queue and the Counter, which no operation of the locks touches
other == <<queue, qLast, count, cmu, cth, cLast, cHist>>
\* the Mutex / RWMutex and its callers, which Queue and Counter do not touch
locks == <<cfg, mu, callbacksMu, lockTag, wd, pc, call, now, crashed, obs>>

vars == <<locks, other>>

\* ------------------------------------------------------- construction
\* NewMutex: m := &Mutex{Name: p.Name}.  No statement of the package assigns
\* Mutex.timeout, so it keeps its zero value whatever p.Timeout is.
NewMutexTimeout(pTimeout) == 0

\* haveWarningTimeout := p.Timeout > 0
HaveWarningTimeoutAlways == TRUE
HaveWarningTimeout == warnAfter > 0

\* time.NewTicker(p.Timeout), made only when haveWarningTimeout: it runs from
\* construction on, with period p.Timeout.
NewTicker(pTimeout, t0) ==
  IF pTimeout > 0
    THEN [exists |-> TRUE, running |-> TRUE, period |-> pTimeout,
          next |-> t0 + pTimeout, C |-> 0]
    ELSE [exists |-> FALSE, running |-> FALSE, period |-> 0, next |-> 0, C |-> 0]

\* The hook fields NewMutex and NewRWMutex leave: all ten default callbacks when
\* p.SetDefaultCallbacks, else all nil.
NewHooks(setDefaultCallbacks) ==
  [h \in HookNames |-> IF setDefaultCallbacks THEN "default" ELSE "nil"]

\* The owner may assign the exported hook fields before the lock is used.
CustomHooks == [h \in HookNames |-> "custom"]

MutexInit ==
  /\ \E d \in BOOLEAN, c \in BOOLEAN :
        hooks = IF d THEN NewHooks(TRUE) ELSE IF c THEN CustomHooks ELSE NewHooks(FALSE)
  /\ warnAfter \in {0, WarnAfterT}
  /\ now = 1
  /\ timeout = NewMutexTimeout(warnAfter)
  /\ ticker = NewTicker(warnAfter, now)
  /\ mu = [writer |-> FALSE, readers |-> 0]
  /\ callbacksMu = NoOne
  /\ lockTag = NoTag
  /\ lockedAt = ZeroTime
  /\ closeC = 0
  /\ tasks = {}
  /\ pc = [t \in Threads |-> "idle"]
  /\ op = [t \in Threads |-> "none"]
  /\ tagArg = [t \in Threads |-> NoTag]
  /\ cycles = [t \in Threads |-> 0]
  /\ crashed = [how |-> "no", by |-> NoOne]
  /\ counter = 0
  /\ tmp = [t \in Threads |-> 0]
  /\ nExcl = 0
  /\ hookLog = [t \in Threads |-> <<>>]
  /\ relTag = [t \in Threads |-> FALSE]
  /\ warned = [t \in Threads |-> FALSE]
  /\ lastWarn = NoWarn
  /\ tagSeen = [t \in Threads |-> NoneSeen]

\* NewQueue(): an empty queue without limit (maxLen 0) in normal mode
NewQueue == [queue |-> <<>>, maxLen |-> 0, mode |-> modeNormal]

\* NewLimitedQueue(max)
NewLimitedQueue(max) == [queue |-> <<>>, maxLen |-> max, mode |-> modeNormal]

\* NewDroppingQueue(max)
NewDroppingQueue(max) == [queue |-> <<>>, maxLen |-> max, mode |-> modeDrop]

NoCall == [op |-> "none", arg |-> Nil, before |-> <<>>, err |-> Nil, val |-> Nil]

\* NewCounter(initialValue)
NewCounter(initialValue) == initialValue

CounterIdle == [pc |-> "idle", op |-> "none", arg |-> 0, v |-> 0, before |-> 0]
NoCounterCall == [op |-> "none", arg |-> 0, before |-> 0, after |-> 0, ret |-> 0]

\* A Queue and a Counter nobody uses.
QueueUnused == queue = NewQueue /\ qLast = NoCall

CounterInit(v0) ==
  /\ count = NewCounter(v0)
  /\ cmu = NoOne
  /\ cth = [t \in Threads |-> CounterIdle]
  /\ cLast = NoCounterCall
  /\ cHist = [init |-> v0, n |-> 0, rets |-> <<>>, onlyInc |-> TRUE]

CounterUnused == CounterInit(0)

\* A Mutex nobody uses.
MutexUnused == MutexInit /\ warnAfter = 0 /\ hooks = NewHooks(FALSE)

Init == MutexInit /\ QueueUnused /\ CounterUnused

Alive == crashed.how = "no"

\* The calls begun so far, by all threads.
RECURSIVE SumCycles(_)
SumCycles(S) ==
  IF S = {} THEN 0
  ELSE LET t == CHOOSE x \in S : TRUE IN cycles[t] + SumCycles(S \ {t})

CallsBegun == SumCycles(Threads)

\* ------------------------------------------------------- the primitive
\* sync.RWMutex as its documentation states it.
\* m.mu.Lock() waits until there is no writer and no reader.
MuLockShared(m) == [ok |-> ~m.writer, mu |-> [m EXCEPT !.readers = @ + 1]]
MuLock(m) == [ok |-> ~m.writer /\ m.readers = 0, mu |-> [m EXCEPT !.writer = TRUE]]

\* m.Mutex.mu.RLock() waits until there is no writer.
MuRLockNoWait(m) == [ok |-> TRUE, mu |-> [m EXCEPT !.readers = @ + 1]]
MuRLock(m) == [ok |-> ~m.writer, mu |-> [m EXCEPT !.readers = @ + 1]]

\* m.mu.Unlock(): a fatal error unless the lock is held for writing.
MuUnlock(m) ==
  IF m.writer THEN [fatal |-> FALSE, mu |-> [m EXCEPT !.writer = FALSE]]
              ELSE [fatal |-> TRUE, mu |-> m]

\* m.Mutex.mu.RUnlock(): a fatal error unless some reader holds the lock.
MuRUnlock(m) ==
  IF m.readers > 0 THEN [fatal |-> FALSE, mu |-> [m EXCEPT !.readers = @ - 1]]
                   ELSE [fatal |-> TRUE, mu |-> m]

\* ------------------------------------------------------- the ticker
\* m.ticker.Reset(d): panics for d <= 0, else restarts the ticker with period d.
TickerReset(tk, d, t0) ==
  IF d <= 0 THEN [panic |-> TRUE, ticker |-> tk]
            ELSE [panic |-> FALSE,
                  ticker |-> [tk EXCEPT !.running = TRUE, !.period = d, !.next = t0 + d]]

\* m.ticker.Stop(): no more ticks are sent; a buffered tick stays in the channel.
TickerStop(tk) == [tk EXCEPT !.running = FALSE]

\* ------------------------------------------------------- hooks
\* if m.X != nil { m.X() }: the hook fires when its field is set.  The log keeps,
\* per thread, the hooks fired in its current cycle.
Fire(t, h) ==
  IF hooks[h] # "nil" THEN [hookLog EXCEPT ![t] = Append(@, h)] ELSE hookLog

\* ------------------------------------------------------- callers
\* A thread begins Lock(), LockWithTag(tag) or RLock().
Call(t) ==
  /\ Alive /\ pc[t] = "idle" /\ CallsBegun < MaxCalls
  /\ \E o \in {"Lock", "LockWithTag", "RLock"} :
       /\ op' = [op EXCEPT ![t] = o]
       /\ \E g \in Tags :
            tagArg' = [tagArg EXCEPT ![t] = IF o = "LockWithTag" THEN g ELSE NoTag]
       /\ pc' = [pc EXCEPT ![t] = IF o = "RLock" THEN "rl_before" ELSE "lk_before"]
       /\ nExcl' = IF o = "RLock" THEN nExcl ELSE nExcl + 1
  /\ cycles' = [cycles EXCEPT ![t] = @ + 1]
  /\ hookLog' = [hookLog EXCEPT ![t] = <<>>]
  /\ tagSeen' = [tagSeen EXCEPT ![t] = NoneSeen]
  /\ relTag' = [relTag EXCEPT ![t] = FALSE]
  /\ lastWarn' = NoWarn
  /\ UNCHANGED <<other, cfg, mu, callbacksMu, lockTag, wd, now, crashed, counter, tmp, warned>>

\* A thread calls Unlock() or RUnlock() while it holds nothing.
CallUnpaired(t) ==
  /\ Alive /\ pc[t] = "idle" /\ CallsBegun < MaxCalls
  /\ \E o \in {"Unlock", "RUnlock"} :
       /\ op' = [op EXCEPT ![t] = o]
       /\ pc' = [pc EXCEPT ![t] = IF o = "Unlock" THEN "ul_before" ELSE "ru_before"]
  /\ tagArg' = [tagArg EXCEPT ![t] = NoTag]
  /\ cycles' = [cycles EXCEPT ![t] = @ + 1]
  /\ hookLog' = [hookLog EXCEPT ![t] = <<>>]
  /\ tagSeen' = [tagSeen EXCEPT ![t] = NoneSeen]
  /\ relTag' = [relTag EXCEPT ![t] = FALSE]
  /\ lastWarn' = NoWarn
  /\ UNCHANGED <<other, cfg, mu, callbacksMu, lockTag, wd, now, crashed, nExcl, counter, tmp,
                 warned>>

\* ------------------------------------------------------- Mutex.lock
\* defer m.callbacksMu.Unlock(): a hook block releases callbacksMu as it ends, so
\* the thread goes on to the primitive without it.
GuardAfterHookKept(t) == t
GuardAfterHook(t) == NoOne

\* lock, first block: BeforeLock under callbacksMu.
BeforeLockStep(t) ==
  /\ Alive /\ pc[t] = "lk_before" /\ callbacksMu = NoOne
  /\ hookLog' = Fire(t, "BeforeLock")
  /\ callbacksMu' = GuardAfterHook(t)
  /\ pc' = [pc EXCEPT ![t] = "lk_acquire"]
  /\ UNCHANGED <<other, cfg, mu, lockTag, wd, call, now, crashed, counter, tmp,
                 tagSeen, relTag, warned, lastWarn>>

\* m.mu.Lock()
Acquire(t) ==
  /\ Alive /\ pc[t] = "lk_acquire" /\ MuLock(mu).ok
  /\ mu' = MuLock(mu).mu
  /\ pc' = [pc EXCEPT ![t] = "lk_after"]
  /\ UNCHANGED <<other, cfg, callbacksMu, lockTag, wd, call, now, crashed, obs>>

\* The tag lock() stores: if tag != nil { m.lockTag = tag }
StoredTagDropped(tag, old) == old
StoredTag(tag, old) == IF tag # NoTag THEN tag ELSE old

\* A watchdog goroutine as the go statement of the default AfterLock starts it: it
\* waits in its select on the channel m.closeC holds.
NewTaskOldChannel(ch, t) == [ch |-> ch - 1, pc |-> "select", lav |-> ZeroTime, owner |-> t,
                             gen |-> cycles[t]]
NewTask(ch, t) == [ch |-> ch, pc |-> "select", lav |-> ZeroTime, owner |-> t,
                   gen |-> cycles[t]]

\* The default AfterLock arms the watchdog when there is a warning timeout.
Arms == hooks["AfterLock"] = "default" /\ HaveWarningTimeout

\* lock, last block, under callbacksMu: store the tag, then AfterLock.  The default
\* AfterLock of a Mutex with a warning timeout makes a new closeC, sets lockedAt,
\* starts the watchdog goroutine and then calls m.ticker.Reset(m.timeout); when
\* Reset panics the panic leaves lock() (the deferred callbacksMu.Unlock() runs)
\* with the primitive held and the goroutine started.
AfterLockStep(t) ==
  /\ Alive /\ pc[t] = "lk_after" /\ callbacksMu = NoOne
  /\ LET tag1 == StoredTag(tagArg[t], lockTag)
         rs == TickerReset(ticker, timeout, now)
     IN /\ lockTag' = tag1
        /\ hookLog' = Fire(t, "AfterLock")
        /\ tagSeen' = [tagSeen EXCEPT ![t].al = tag1]
        /\ relTag' = [u \in Threads |->
                        IF u # t /\ pc[u] = "ul_after" /\ tagArg[t] # NoTag THEN TRUE
                                                                         ELSE relTag[u]]
        /\ IF Arms
             THEN /\ closeC' = closeC + 1
                  /\ lockedAt' = now
                  /\ tasks' = tasks \cup {NewTask(closeC + 1, t)}
                  /\ ticker' = rs.ticker
                  /\ pc' = [pc EXCEPT ![t] = IF rs.panic THEN "lk_panic" ELSE "cs_read"]
             ELSE /\ pc' = [pc EXCEPT ![t] = "cs_read"]
                  /\ UNCHANGED wd
  /\ UNCHANGED <<other, cfg, mu, callbacksMu, call, now, crashed, counter, tmp, warned, lastWarn>>

\* The panic of Reset reaches the caller of Lock(): a caller with a deferred
\* recover() goes on, holding the primitive.
PanicRecovered(t) ==
  /\ Alive /\ pc[t] = "lk_panic"
  /\ pc' = [pc EXCEPT ![t] = "cs_read"]
  /\ UNCHANGED <<other, cfg, mu, callbacksMu, lockTag, wd, call, now, crashed, obs>>

\* ... and without one the panic ends the process.
PanicCrash(t) ==
  /\ Alive /\ pc[t] = "lk_panic"
  /\ crashed' = [how |-> "panic", by |-> t]
  /\ UNCHANGED <<other, cfg, mu, callbacksMu, lockTag, wd, pc, call, now, obs>>

\* The caller's critical section: read the shared counter, then write it back
\* incremented.
CsRead(t) ==
  /\ Alive /\ pc[t] = "cs_read"
  /\ tmp' = [tmp EXCEPT ![t] = counter]
  /\ pc' = [pc EXCEPT ![t] = "cs_write"]
  /\ UNCHANGED <<other, cfg, mu, callbacksMu, lockTag, wd, call, now, crashed, counter, hookLog,
                 tagSeen, relTag, warned, lastWarn>>

CsWrite(t) ==
  /\ Alive /\ pc[t] = "cs_write"
  /\ counter' = tmp[t] + Increment
  /\ tmp' = [tmp EXCEPT ![t] = 0]
  /\ pc' = [pc EXCEPT ![t] = "ul_before"]
  /\ UNCHANGED <<other, cfg, mu, callbacksMu, lockTag, wd, call, now, crashed, hookLog, tagSeen,
                 relTag, warned, lastWarn>>

\* ------------------------------------------------------- Mutex.Unlock
\* The default BeforeUnlock disarms the watchdog when there is a warning timeout.
DisarmsNever == FALSE
Disarms == hooks["BeforeUnlock"] = "default" /\ HaveWarningTimeout

\* Unlock, first block: BeforeUnlock under callbacksMu.  When it disarms, it stops
\* the ticker, clears lockedAt and then sends on the unbuffered m.closeC: the
\* thread waits there, holding callbacksMu, for a receiver.
BeforeUnlockStep(t) ==
  /\ Alive /\ pc[t] = "ul_before" /\ callbacksMu = NoOne
  /\ hookLog' = Fire(t, "BeforeUnlock")
  /\ IF Disarms
       THEN /\ ticker' = TickerStop(ticker)
            /\ lockedAt' = ZeroTime
            /\ callbacksMu' = t
            /\ pc' = [pc EXCEPT ![t] = "ul_send"]
       ELSE /\ callbacksMu' = GuardAfterHook(t)
            /\ pc' = [pc EXCEPT ![t] = "ul_cleartag"]
            /\ UNCHANGED <<ticker, lockedAt>>
  /\ UNCHANGED <<other, cfg, mu, lockTag, closeC, tasks, call, now, crashed, counter, tmp,
                 tagSeen, relTag, warned, lastWarn>>

\* A goroutine in its select can take the value sent on the channel it waits on.
Receives(k, ch) == k.pc = "select" /\ k.ch = ch

\* m.closeC <- struct{}{} meets case <-m.closeC: the goroutine returns, the
\* default BeforeUnlock logs and returns, callbacksMu is released.
SendCloseLeak(t) ==
  /\ Alive /\ pc[t] = "ul_send"
  /\ \E k \in tasks : Receives(k, closeC)
  /\ callbacksMu' = GuardAfterHook(t)
  /\ pc' = [pc EXCEPT ![t] = "ul_cleartag"]
  /\ UNCHANGED <<other, cfg, mu, lockTag, wd, call, now, crashed, obs>>
SendClose(t) ==
  /\ Alive /\ pc[t] = "ul_send"
  /\ \E k \in tasks :
       /\ Receives(k, closeC)
       /\ tasks' = tasks \ {k}
  /\ callbacksMu' = GuardAfterHook(t)
  /\ pc' = [pc EXCEPT ![t] = "ul_cleartag"]
  /\ UNCHANGED <<other, cfg, mu, lockTag, lockedAt, ticker, closeC, call, now, crashed, obs>>

\* m.lockTag = nil, outside callbacksMu
UnlockTagKept(old) == old
UnlockTag(old) == NoTag

ClearTag(t) ==
  /\ Alive /\ pc[t] = "ul_cleartag"
  /\ lockTag' = UnlockTag(lockTag)
  /\ pc' = [pc EXCEPT ![t] = "ul_release"]
  /\ UNCHANGED <<other, cfg, mu, callbacksMu, wd, call, now, crashed, obs>>

\* m.mu.Unlock().  Its fatal error ends the process: the deferred function with
\* recover() does not run, and nothing else between its registration and the
\* return of Unlock() panics, so recover() yields nil whenever it does run.
Release(t) ==
  /\ Alive /\ pc[t] = "ul_release"
  /\ LET r == MuUnlock(mu)
     IN IF r.fatal
          THEN /\ crashed' = [how |-> "fatal", by |-> t]
               /\ UNCHANGED <<mu, pc>>
          ELSE /\ mu' = r.mu
               /\ pc' = [pc EXCEPT ![t] = "ul_after"]
               /\ UNCHANGED crashed
  /\ UNCHANGED <<other, cfg, callbacksMu, lockTag, wd, call, now, obs>>

\* The hook the last block of Unlock calls.
UnlockLastHookCopied == "BeforeUnlock"
UnlockLastHook == "AfterUnlock"

\* Unlock, last block: AfterUnlock under callbacksMu; Unlock() returns.
AfterUnlockStep(t) ==
  /\ Alive /\ pc[t] = "ul_after" /\ callbacksMu = NoOne
  /\ hookLog' = Fire(t, UnlockLastHook)
  /\ tagSeen' = [tagSeen EXCEPT ![t].au = lockTag]
  /\ warned' = [warned EXCEPT ![t] = FALSE]
  /\ pc' = [pc EXCEPT ![t] = "idle"]
  /\ UNCHANGED <<other, cfg, mu, callbacksMu, lockTag, wd, call, now, crashed, counter, tmp,
                 relTag, lastWarn>>

\* ------------------------------------------------------- RWMutex.RLock / RUnlock
\* RLock() takes no tag: its blocks store nothing in m.lockTag.
SharedTagCleared(old) == NoTag
SharedTag(old) == old

BeforeRLockStep(t) ==
  /\ Alive /\ pc[t] = "rl_before" /\ callbacksMu = NoOne
  /\ hookLog' = Fire(t, "BeforeRLock")
  /\ lockTag' = SharedTag(lockTag)
  /\ callbacksMu' = GuardAfterHook(t)
  /\ pc' = [pc EXCEPT ![t] = "rl_acquire"]
  /\ UNCHANGED <<other, cfg, mu, wd, call, now, crashed, counter, tmp,
                 tagSeen, relTag, warned, lastWarn>>

\* m.Mutex.mu.RLock()
RAcquire(t) ==
  /\ Alive /\ pc[t] = "rl_acquire" /\ MuRLock(mu).ok
  /\ mu' = MuRLock(mu).mu
  /\ pc' = [pc EXCEPT ![t] = "rl_after"]
  /\ UNCHANGED <<other, cfg, callbacksMu, lockTag, wd, call, now, crashed, obs>>

\* RLock, last block: AfterRLock under callbacksMu; RLock() returns and the
\* reader is in its critical section until it calls RUnlock().
AfterRLockStep(t) ==
  /\ Alive /\ pc[t] = "rl_after" /\ callbacksMu = NoOne
  /\ hookLog' = Fire(t, "AfterRLock")
  /\ lockTag' = SharedTag(lockTag)
  /\ pc' = [pc EXCEPT ![t] = "ru_before"]
  /\ UNCHANGED <<other, cfg, mu, callbacksMu, wd, call, now, crashed, counter, tmp,
                 tagSeen, relTag, warned, lastWarn>>

BeforeRUnlockStep(t) ==
  /\ Alive /\ pc[t] = "ru_before" /\ callbacksMu = NoOne
  /\ hookLog' = Fire(t, "BeforeRUnlock")
  /\ callbacksMu' = GuardAfterHook(t)
  /\ pc' = [pc EXCEPT ![t] = "ru_release"]
  /\ UNCHANGED <<other, cfg, mu, lockTag, wd, call, now, crashed, counter, tmp,
                 tagSeen, relTag, warned, lastWarn>>

\* m.Mutex.mu.RUnlock(); its fatal error ends the process as in Release.
RRelease(t) ==
  /\ Alive /\ pc[t] = "ru_release"
  /\ LET r == MuRUnlock(mu)
     IN IF r.fatal
          THEN /\ crashed' = [how |-> "fatal", by |-> t]
               /\ UNCHANGED <<mu, pc>>
          ELSE /\ mu' = r.mu
               /\ pc' = [pc EXCEPT ![t] = "ru_after"]
               /\ UNCHANGED crashed
  /\ UNCHANGED <<other, cfg, callbacksMu, lockTag, wd, call, now, obs>>

AfterRUnlockStep(t) ==
  /\ Alive /\ pc[t] = "ru_after" /\ callbacksMu = NoOne
  /\ hookLog' = Fire(t, "AfterRUnlock")
  /\ pc' = [pc EXCEPT ![t] = "idle"]
  /\ UNCHANGED <<other, cfg, mu, callbacksMu, lockTag, wd, call, now, crashed, counter, tmp,
                 tagSeen, relTag, warned, lastWarn>>

\* ------------------------------------------------------- the watchdog goroutine
\* case <-m.ticker.C: the goroutine takes the buffered tick (and reads m.lockTag
\* for the text of its warning, holding no lock).
WdTick(k) ==
  /\ Alive /\ k \in tasks /\ k.pc = "select" /\ ticker.C = 1
  /\ ticker' = [ticker EXCEPT !.C = 0]
  /\ tasks' = (tasks \ {k}) \cup {[k EXCEPT !.pc = "read"]}
  /\ UNCHANGED <<other, cfg, mu, callbacksMu, lockTag, lockedAt, closeC, pc, call, now, crashed,
                 obs>>

\* lockedAtValue = m.lockedAt, under lockedAtMu
WdReadLockedAt(k) ==
  /\ Alive /\ k \in tasks /\ k.pc = "read"
  /\ tasks' = (tasks \ {k}) \cup {[k EXCEPT !.pc = "check", !.lav = lockedAt]}
  /\ UNCHANGED <<other, cfg, mu, callbacksMu, lockTag, lockedAt, ticker, closeC, pc, call, now,
                 crashed, obs>>

\* if !lockedAtValue.IsZero() { duration := now - lockedAtValue;
\*                              if duration >= m.timeout { log } }
Warns(lav, t0, d) == lav # ZeroTime /\ t0 - lav >= d

\* The Unlock() of the hold that started goroutine k has returned.
Late(k) == cycles[k.owner] # k.gen \/ pc[k.owner] = "idle"

\* The goroutine logs the warning or not, and goes back to its select, which
\* evaluates m.closeC anew.
WdCheck(k) ==
  /\ Alive /\ k \in tasks /\ k.pc = "check"
  /\ IF Warns(k.lav, now, timeout)
       THEN /\ lastWarn' = [elapsed |-> now - k.lav, late |-> Late(k),
                             stale |-> lockedAt = ZeroTime]
            /\ warned' = [warned EXCEPT ![k.owner] = @ \/ ~Late(k)]
       ELSE UNCHANGED <<lastWarn, warned>>
  /\ tasks' = (tasks \ {k}) \cup {[k EXCEPT !.pc = "select", !.lav = ZeroTime, !.ch = closeC]}
  /\ UNCHANGED <<other, cfg, mu, callbacksMu, lockTag, lockedAt, ticker, closeC, pc, call, now,
                 crashed, counter, tmp, hookLog, tagSeen, relTag>>

\* ------------------------------------------------------- time
\* A running ticker whose time has come sends a tick; the channel holds one tick
\* and a tick that finds it full is dropped.
TickerDue == ticker.running /\ ticker.next <= now

TickerFire ==
  /\ Alive /\ TickerDue
  /\ ticker' = [ticker EXCEPT !.C = 1, !.next = @ + ticker.period]
  /\ UNCHANGED <<other, cfg, mu, callbacksMu, lockTag, lockedAt, closeC, tasks, pc, call, now,
                 crashed, obs>>

\* Time passes, but not past a tick that is due.  The model lets it pass only
\* on a Mutex with default callbacks: nothing else reads the clock or the ticker.
Advance ==
  /\ Alive /\ hooks["AfterLock"] = "default" /\ ~TickerDue /\ now < MaxTime
  /\ now' = now + 1
  /\ UNCHANGED <<other, cfg, mu, callbacksMu, lockTag, wd, pc, call, crashed, obs>>

\* ------------------------------------------------------- Queue
\* q.len()
len(q) == Len(q.queue)

\* q.pop(): the first element is taken off, or ErrQueueIsEmpty.
pop(q) ==
  IF len(q) = 0
    THEN [q |-> q, val |-> Nil, err |-> ErrQueueIsEmpty]
    ELSE [q |-> [q EXCEPT !.queue = Tail(@)], val |-> Head(q.queue), err |-> Nil]

\* q.Push(object), under the Queue's lock.
PushAlwaysAppends(q, object) == [q |-> [q EXCEPT !.queue = Append(@, object)], err |-> Nil]
Push(q, object) ==
  IF q.maxLen = 0 \/ len(q) < q.maxLen
    THEN [q |-> [q EXCEPT !.queue = Append(@, object)], err |-> Nil]
  ELSE IF q.mode = modeNormal
    THEN [q |-> q, err |-> ErrQueueOverflowed]
  ELSE IF q.mode = modeDrop
    THEN LET d == pop(q)
         IN IF d.err # Nil
              THEN [q |-> d.q, err |-> "failed to drop element"]
              ELSE [q |-> [d.q EXCEPT !.queue = Append(@, object)], err |-> Nil]
  ELSE [q |-> q, err |-> Nil]

\* q.Pop(), under the Queue's lock.
Pop(q) == pop(q)

\* q.Get(): the first element, left in the queue, or ErrQueueIsEmpty.
Get(q) ==
  IF len(q) = 0 THEN [q |-> q, val |-> Nil, err |-> ErrQueueIsEmpty]
                ELSE [q |-> q, val |-> q.queue[1], err |-> Nil]

\* A caller pushes an object.  (The model stops a queue without limit at
\* QueueCap elements.)
PushCall ==
  /\ len(queue) < QueueCap
  /\ \E o \in Objects :
       LET r == Push(queue, o)
       IN /\ queue' = r.q
          /\ qLast' = [op |-> "Push", arg |-> o, before |-> queue.queue, err |-> r.err,
                       val |-> Nil]
  /\ UNCHANGED <<locks, count, cmu, cth, cLast, cHist>>

PopCall ==
  /\ LET r == Pop(queue)
     IN /\ queue' = r.q
        /\ qLast' = [op |-> "Pop", arg |-> Nil, before |-> queue.queue, err |-> r.err,
                     val |-> r.val]
  /\ UNCHANGED <<locks, count, cmu, cth, cLast, cHist>>

GetCall ==
  /\ LET r == Get(queue)
     IN /\ queue' = r.q
        /\ qLast' = [op |-> "Get", arg |-> Nil, before |-> queue.queue, err |-> r.err,
                     val |-> r.val]
  /\ UNCHANGED <<locks, count, cmu, cth, cLast, cHist>>

\* ------------------------------------------------------- Counter
inc(c) == c + 1
dec(c) == c - 1
add(c, i) == c + i
set(c, i) == i

\* The change a call makes to the count; Get makes none.
Changed(o, c, i) ==
  CASE o = "Inc" -> inc(c)
    [] o = "Dec" -> dec(c)
    [] o = "Add" -> add(c, i)
    [] o = "Set" -> set(c, i)
    [] OTHER -> c

\* A thread calls Inc(), Dec(), Add(i), Set(i) or Get().
CounterCall(t) ==
  /\ cth[t].pc = "idle" /\ cHist.n < MaxCounterCalls
  /\ \E o \in {"Inc", "Dec", "Add", "Set", "Get"}, i \in CounterArgs :
       /\ cth' = [cth EXCEPT ![t] = [pc |-> "lock", op |-> o,
                                     arg |-> IF o \in {"Add", "Set"} THEN i ELSE 0,
                                     v |-> 0, before |-> 0]]
       /\ cHist' = [cHist EXCEPT !.n = @ + 1, !.onlyInc = @ /\ o = "Inc"]
  /\ UNCHANGED <<locks, queue, qLast, count, cmu, cLast>>

\* c.Lock()
CounterLock(t) ==
  /\ cth[t].pc = "lock" /\ cmu = NoOne
  /\ cmu' = t
  /\ cth' = [cth EXCEPT ![t].pc = "read"]
  /\ UNCHANGED <<locks, queue, qLast, count, cLast, cHist>>

\* v := c.count (in Get, the operand of the return statement)
CounterRead(t) ==
  /\ cth[t].pc = "read"
  /\ cth' = [cth EXCEPT ![t].v = count, ![t].before = count,
                         ![t].pc = IF cth[t].op = "Get" THEN "return" ELSE "change"]
  /\ UNCHANGED <<locks, queue, qLast, count, cmu, cLast, cHist>>

\* c.inc(), c.dec(), c.add(i) or c.set(i)
CounterChange(t) ==
  /\ cth[t].pc = "change"
  /\ count' = Changed(cth[t].op, count, cth[t].arg)
  /\ cth' = [cth EXCEPT ![t].pc = "return", ![t].before = count]
  /\ UNCHANGED <<locks, queue, qLast, cmu, cLast, cHist>>

\* The value a call returns: return v
ReturnedCurrent(v, c) == c
Returned(v, c) == v

\* return v, and the deferred c.Unlock()
CounterReturn(t) ==
  /\ cth[t].pc = "return" /\ cmu = t
  /\ cmu' = NoOne
  /\ cLast' = [op |-> cth[t].op, arg |-> cth[t].arg, before |-> cth[t].before,
               after |-> count, ret |-> Returned(cth[t].v, count)]
  /\ cHist' = IF cth[t].op = "Inc"
               THEN [cHist EXCEPT !.rets = Append(@, Returned(cth[t].v, count))]
               ELSE cHist
  /\ cth' = [cth EXCEPT ![t].pc = "idle"]
  /\ UNCHANGED <<locks, queue, qLast, count>>

\* ------------------------------------------------------- specifications
Next ==
  \/ \E t \in Threads :
       \/ Call(t)
       \/ BeforeLockStep(t) \/ Acquire(t) \/ AfterLockStep(t)
       \/ PanicRecovered(t) \/ PanicCrash(t)
       \/ CsRead(t) \/ CsWrite(t)
       \/ BeforeUnlockStep(t) \/ SendClose(t) \/ ClearTag(t) \/ Release(t)
       \/ AfterUnlockStep(t)
       \/ BeforeRLockStep(t) \/ RAcquire(t) \/ AfterRLockStep(t)
       \/ BeforeRUnlockStep(t) \/ RRelease(t) \/ AfterRUnlockStep(t)
  \/ \E k \in tasks : WdTick(k)
  \/ \E k \in tasks : WdReadLockedAt(k)
  \/ \E k \in tasks : WdCheck(k)
  \/ TickerFire
  \/ Advance

\* Callers that pair every Lock with an Unlock and every RLock with an RUnlock.
Spec == Init /\ [][Next]_vars

\* Callers that may also call Unlock or RUnlock without holding the primitive.
MisuseNext == Next \/ \E t \in Threads : CallUnpaired(t)

MisuseSpec == Init /\ [][MisuseNext]_vars

\* A Queue from one of the constructors that take a limit, and its callers.
QueueInit ==
  /\ MutexUnused /\ CounterUnused
  /\ \E max \in 0..MaxQueueMax : queue \in {NewLimitedQueue(max), NewDroppingQueue(max)}
  /\ qLast = NoCall

QueueNext == PushCall \/ PopCall \/ GetCall

QueueSpec == QueueInit /\ [][QueueNext]_vars

\* A Counter and its callers.
CounterSpecInit ==
  /\ MutexUnused /\ QueueUnused
  /\ \E v0 \in 0..MaxInitialValue : CounterInit(v0)

CounterNext ==
  \E t \in Threads :
    \/ CounterCall(t) \/ CounterLock(t) \/ CounterRead(t) \/ CounterChange(t)
    \/ CounterReturn(t)

CounterSpec == CounterSpecInit /\ [][CounterNext]_vars

\* ------------------------------------------------------- properties
ExclusiveOps == {"Lock", "LockWithTag"}

\* The thread is in the critical section between its Lock() and its Unlock().
InCS(t) == pc[t] \in {"cs_read", "cs_write"}

\* The thread holds the primitive in exclusive mode: m.mu.Lock() has returned
\* and its m.mu.Unlock() has not run.
HoldsExclusive(t) ==
  /\ op[t] \in ExclusiveOps
  /\ pc[t] \in {"lk_after", "lk_panic", "cs_read", "cs_write", "ul_before", "ul_send",
                "ul_cleartag", "ul_release"}

\* The thread holds the primitive in shared mode.
HoldsShared(t) == op[t] = "RLock" /\ pc[t] \in {"rl_after", "ru_before", "ru_release"}

ExclusiveHolders == {t \in Threads : HoldsExclusive(t)}
SharedHolders == {t \in Threads : HoldsShared(t)}

AllReturned == \A t \in Threads : pc[t] = "idle"

\* C1: at most one thread is inside its Lock()...Unlock() critical section, and
\* once every caller has returned the shared counter is the number of exclusive
\* cycles times the increment: no update is lost.
C1_MutualExclusion ==
  /\ Cardinality({t \in Threads : InCS(t)}) <= 1
  /\ AllReturned => counter = nExcl * Increment

C1_Witness ==
  /\ AllReturned
  /\ nExcl = MaxCalls
  /\ counter = nExcl * Increment

\* C2: either no exclusive holder and any number of shared holders, or exactly
\* one exclusive holder and no shared holder.
C2_SharedExclusive ==
  \/ ExclusiveHolders = {}
  \/ Cardinality(ExclusiveHolders) = 1 /\ SharedHolders = {}

\* Two threads hold the lock in shared mode at the same time.
C2_Witness == Cardinality(SharedHolders) >= 2 /\ ExclusiveHolders = {}

FourHooks == <<"BeforeLock", "AfterLock", "BeforeUnlock", "AfterUnlock">>
FourHooksSet == \A i \in 1..4 : hooks[FourHooks[i]] # "nil"
IsPrefix(a, b) == Len(a) <= Len(b) /\ \A i \in 1..Len(a) : a[i] = b[i]

\* C3: with the four hooks set, the hooks a thread's Lock()...Unlock() cycle has
\* fired so far are always a prefix of beforeLock, afterLock, beforeUnlock,
\* afterUnlock, and a completed cycle has fired all four: each once, in order.
C3_HookOrder ==
  \A t \in Threads :
    (FourHooksSet /\ op[t] \in ExclusiveOps) =>
      /\ IsPrefix(hookLog[t], FourHooks)
      /\ pc[t] = "idle" => hookLog[t] = FourHooks

\* Both threads have completed an exclusive cycle with the hooks set.
C3_Witness ==
  /\ FourHooksSet
  /\ \A t \in Threads : pc[t] = "idle" /\ op[t] \in ExclusiveOps /\ hookLog[t] = FourHooks

\* The hook of that name is set, so it fires.
HookSet(h) == hooks[h] # "nil"

Fired(t, h) == Cardinality({i \in 1..Len(hookLog[t]) : hookLog[t][i] = h})

\* The thread's release of the primitive found it not held: its m.mu.Unlock()
\* or m.Mutex.mu.RUnlock() raised the run-time fault.
ReleasedUnheld(t) == crashed.how = "fatal" /\ crashed.by = t

\* C5 as claimed: when Unlock() releases a primitive that is not held and
\* afterUnlockRecover is set, the fault is intercepted: the process goes on,
\* afterUnlockRecover has fired exactly once and afterUnlock has not.
C5_UnlockMisuseRecovered ==
  \A t \in Threads :
    (pc[t] = "ul_release" /\ ReleasedUnheld(t) /\ HookSet("AfterUnlockRecover")) =>
      /\ Alive
      /\ Fired(t, "AfterUnlockRecover") = 1
      /\ Fired(t, "AfterUnlock") = 0

\* C6 as claimed: when RUnlock() releases a primitive that has no shared holder
\* and afterRUnlockRecover is set, the fault is intercepted: the process goes on,
\* afterRUnlockRecover has fired exactly once, afterUnlockRecover and
\* afterRUnlock have not.
C6_RUnlockMisuseRecovered ==
  \A t \in Threads :
    (pc[t] = "ru_release" /\ ReleasedUnheld(t) /\ HookSet("AfterRUnlockRecover")) =>
      /\ Alive
      /\ Fired(t, "AfterRUnlockRecover") = 1
      /\ Fired(t, "AfterUnlockRecover") = 0
      /\ Fired(t, "AfterRUnlock") = 0

\* C7 as claimed: when Unlock() releases a primitive that is not held and
\* afterUnlockRecover is not set, the fault is discarded: the process goes on,
\* no recovery hook and no afterUnlock hook has fired, the primitive is not held.
C7_UnlockMisuseDiscarded ==
  \A t \in Threads :
    (pc[t] = "ul_release" /\ ReleasedUnheld(t) /\ ~HookSet("AfterUnlockRecover")) =>
      /\ Alive
      /\ Fired(t, "AfterUnlockRecover") = 0
      /\ Fired(t, "AfterUnlock") = 0
      /\ ~mu.writer

\* C8 as claimed: every watchdog warning reports an elapsed hold time of at
\* least warnAfter.
C8_NoEarlyWarning == lastWarn # NoWarn => lastWarn.elapsed >= warnAfter

\* The watchdog has nothing left to do: every goroutine waits in its select, no
\* tick is buffered and none is due.
WatchdogQuiet ==
  /\ \A k \in tasks : k.pc = "select"
  /\ ticker.C = 0
  /\ ~TickerDue

\* The thread is between the end of its Lock() and the start of its Unlock().
Holding(t) == op[t] \in ExclusiveOps /\ pc[t] \in {"cs_read", "cs_write", "ul_before"}

\* C9 as claimed: with default callbacks and a warning timeout, once a thread
\* has held the lock for warnAfter and the watchdog has been scheduled (it has
\* nothing left to do), a warning has been logged for that hold.
C9_WarningEmitted ==
  \A t \in Threads :
    (Arms /\ Holding(t) /\ now - lockedAt >= warnAfter /\ WatchdogQuiet) => warned[t]

\* C10: no live watchdog goroutine belongs to a hold whose Unlock() has
\* returned, and no warning is logged for a hold after its Unlock() returned.
C10_NoResidualWatchdog ==
  /\ \A k \in tasks : ~Late(k)
  /\ lastWarn # NoWarn => ~lastWarn.late

\* An Unlock() has returned after a hold during which a warning was logged, and
\* no watchdog goroutine is left.
C10_Witness ==
  \E t \in Threads :
    /\ Arms /\ Disarms /\ op[t] \in ExclusiveOps /\ pc[t] = "idle"
    /\ lastWarn # NoWarn
    /\ tasks = {}

\* C11 as claimed: at most one watchdog goroutine is alive, and one is alive
\* exactly when the primitive is held in exclusive mode on a Mutex with a warning
\* timeout and default callbacks.
C11_WatchdogIffHeldClaimed ==
  /\ Cardinality(tasks) <= 1
  /\ tasks # {} <=> (ExclusiveHolders # {} /\ Arms)

\* The thread's default AfterLock has run and the send of its default
\* BeforeUnlock has not yet been received.
Armed(t) ==
  /\ op[t] \in ExclusiveOps
  /\ pc[t] \in {"lk_panic", "cs_read", "cs_write", "ul_before", "ul_send"}

\* C11 as amended: at most one watchdog goroutine is alive; one is alive only
\* while the primitive is held in exclusive mode, and exactly from the holder's
\* default AfterLock to the hand-off in its default BeforeUnlock.
C11_WatchdogWhileArmed ==
  /\ Cardinality(tasks) <= 1
  /\ tasks # {} => (ExclusiveHolders # {} /\ Arms)
  /\ tasks # {} <=> (Arms /\ \E t \in Threads : Armed(t))

\* The second exclusive hold on a Mutex that arms: its holder is in its critical
\* section and one watchdog goroutine is alive.
C11_Witness ==
  /\ nExcl = 2
  /\ \E t \in Threads : Holding(t) /\ Cardinality(tasks) = 1
  /\ \E u \in Threads : pc[u] = "idle" /\ op[u] \in ExclusiveOps

\* C12: on a Mutex built with warnAfter = 0 there is never a ticker, a watchdog
\* goroutine, a lockedAt value, a cancellation send or a warning.
C12_ZeroTimeoutDisables ==
  warnAfter = 0 =>
    /\ ~ticker.exists
    /\ tasks = {}
    /\ lockedAt = ZeroTime
    /\ closeC = 0
    /\ \A t \in Threads : pc[t] # "ul_send" /\ ~warned[t]
    /\ lastWarn = NoWarn

\* On a Mutex with default callbacks and warnAfter = 0 a thread has held the
\* lock until the clock reached MaxTime and has returned from Unlock().
C12_Witness ==
  /\ warnAfter = 0 /\ hooks["AfterLock"] = "default"
  /\ now = MaxTime
  /\ \E t \in Threads : op[t] \in ExclusiveOps /\ pc[t] = "idle" /\ hookLog[t] = FourHooks

\* The elements of s after its first; none when s is empty.
Rest(s) == SubSeq(s, 2, Len(s))

\* The last call was a Push that found the queue holding maxLen elements.
PushedWhenFull == qLast.op = "Push" /\ Len(qLast.before) = queue.maxLen

\* C13 as claimed, for every limit including 0: a Push that finds the queue
\* holding maxLen elements returns ErrQueueOverflowed and changes nothing in
\* normal mode, and drops the oldest element, appends the new one and returns nil
\* in drop mode; the length never exceeds maxLen.
C13_BoundedQueueClaimed ==
  /\ len(queue) <= queue.maxLen
  /\ (PushedWhenFull /\ queue.mode = modeNormal) =>
       qLast.err = ErrQueueOverflowed /\ queue.queue = qLast.before
  /\ (PushedWhenFull /\ queue.mode = modeDrop) =>
       qLast.err = Nil /\ queue.queue = Append(Rest(qLast.before), qLast.arg)

\* C13 as amended: the same for every limit maxLen > 0; a queue built with limit
\* 0 has no limit: every Push appends and returns nil.
C13_BoundedQueue ==
  /\ queue.maxLen > 0 =>
       /\ len(queue) <= queue.maxLen
       /\ (PushedWhenFull /\ queue.mode = modeNormal) =>
            qLast.err = ErrQueueOverflowed /\ queue.queue = qLast.before
       /\ (PushedWhenFull /\ queue.mode = modeDrop) =>
            qLast.err = Nil /\ queue.queue = Append(Rest(qLast.before), qLast.arg)
  /\ (queue.maxLen = 0 /\ qLast.op = "Push") =>
       qLast.err = Nil /\ queue.queue = Append(qLast.before, qLast.arg)

\* A dropping queue with limit MaxQueueMax was full of one object and a Push of
\* the other has dropped the oldest.
C13_Witness ==
  /\ queue.maxLen = MaxQueueMax /\ queue.mode = modeDrop
  /\ PushedWhenFull /\ qLast.err = Nil
  /\ qLast.arg # qLast.before[1]
  /\ queue.queue = Append(Rest(qLast.before), qLast.arg)

\* The values the Inc() calls returned so far, as a set.
IncReturns == {cHist.rets[i] : i \in 1..Len(cHist.rets)}

\* No Counter call is in progress.
CounterQuiet == \A t \in Threads : cth[t].pc = "idle"

\* C14: a call returns the value the counter had immediately before its change,
\* the count when it returns is that value changed as the call says, and Get
\* returns the count as it is when Get returns; when all calls so far were Inc() and all k
\* of them have returned, they returned v, ..., v+k-1, each once, and the count
\* is v+k.
C14_PreMutationValue ==
  /\ cLast.op # "none" =>
       /\ cLast.ret = cLast.before
       /\ cLast.after = Changed(cLast.op, cLast.before, cLast.arg)
  /\ (CounterQuiet /\ cHist.onlyInc) =>
       /\ Len(cHist.rets) = cHist.n
       /\ IncReturns = cHist.init .. (cHist.init + cHist.n - 1)
       /\ count = cHist.init + cHist.n

\* MaxCounterCalls Inc() calls by more than one thread have all returned.
C14_Witness ==
  /\ CounterQuiet /\ cHist.onlyInc /\ cHist.n = MaxCounterCalls
  /\ \A t \in Threads : cth[t].op = "Inc"
  /\ count = cHist.init + MaxCounterCalls

\* The thread's default AfterLock has run and its Unlock() has not begun.
AfterLockDone(t) ==
  /\ Arms /\ op[t] \in ExclusiveOps
  /\ pc[t] \in {"lk_panic", "cs_read", "cs_write", "ul_before"}

\* C15 as claimed: on a Mutex with default callbacks and warnAfter = T > 0 every
\* Lock() completes without a fault in afterLock, Mutex.timeout is T, and the
\* ticker runs with period T from the moment of the Lock().
C15_ArmedIntervalIsTimeout ==
  \A t \in Threads :
    AfterLockDone(t) =>
      /\ pc[t] # "lk_panic" /\ crashed.how # "panic"
      /\ timeout = warnAfter
      /\ ticker.running /\ ticker.period = warnAfter
      /\ ticker.next + ticker.C * ticker.period > lockedAt

\* The step arms the watchdog: thread t runs the default AfterLock.
ArmStep(t) == Arms /\ pc[t] = "lk_after" /\ pc'[t] # "lk_after"

\* The step disarms the watchdog: thread t runs the default BeforeUnlock up to
\* its send.
DisarmStep(t) == Disarms /\ pc[t] = "ul_before" /\ pc'[t] # "ul_before"

\* An arm/disarm cycle is in flight: lockedAt is set by arming and cleared by
\* disarming.
InFlight == lockedAt # ZeroTime

\* C16: the watchdog is armed by a thread that holds the primitive in exclusive
\* mode and goes on holding it, only when no cycle is in flight; it is disarmed by
\* a thread that holds the primitive and goes on holding it, only when a cycle is
\* in flight: arm and disarm alternate and cycles do not overlap.
C16_ArmDisarmOrder ==
  [][\A t \in Threads :
       /\ ArmStep(t) =>
            /\ ~InFlight /\ tasks = {}
            /\ HoldsExclusive(t) /\ HoldsExclusive(t)'
            /\ InFlight'
       /\ DisarmStep(t) =>
            /\ InFlight
            /\ HoldsExclusive(t) /\ HoldsExclusive(t)'
            /\ ~InFlight']_vars

\* The second arm/disarm cycle, by another thread than the first, has been
\* disarmed.
C16_Witness ==
  /\ Arms /\ nExcl = 2
  /\ \E t, u \in Threads :
       /\ t # u /\ pc[t] = "ul_send" /\ ~InFlight
       /\ op[u] \in ExclusiveOps /\ pc[u] = "idle"

\* The thread has sent the cancellation signal and it has been received.
HandedOff(t) ==
  /\ Disarms /\ op[t] \in ExclusiveOps
  /\ pc[t] \in {"ul_cleartag", "ul_release", "ul_after"}

\* C17: while an Unlock() waits to hand the cancellation signal over, the one
\* live watchdog goroutine is the one armed for this hold, its select waits on
\* the channel the signal is sent on, and either it can take the signal or it is
\* working on a tick, after which it returns to the select; once the signal is
\* handed over no goroutine armed by this thread is left.
C17_CancellationHandOff ==
  \A t \in Threads :
    /\ (pc[t] = "ul_send" /\ op[t] \in ExclusiveOps) =>
         /\ Cardinality(tasks) = 1
         /\ \A k \in tasks :
              /\ k.owner = t /\ k.gen = cycles[t]
              /\ k.pc = "select" => Receives(k, closeC)
         /\ ~ticker.running
    /\ HandedOff(t) => \A k \in tasks : k.owner # t

\* The signal is available and a tick is pending at the same time.
C17_Witness ==
  \E t \in Threads :
    /\ pc[t] = "ul_send" /\ ticker.C = 1
    /\ \E k \in tasks : Receives(k, closeC)

\* C18 as claimed: no warning is logged for a hold after the default
\* BeforeUnlock has cleared lockedAt.
C18_NoStaleWarning == lastWarn # NoWarn => ~lastWarn.stale

\* The positions of RLock() and RUnlock().
SharedPositions == {"rl_before", "rl_acquire", "rl_after", "ru_before", "ru_release", "ru_after"}

\* The step is a step of thread t's RLock() or RUnlock().
SharedStep(t) ==
  /\ pc'[t] # pc[t]
  /\ pc[t] \in SharedPositions \/ pc'[t] \in SharedPositions

\* C19: no step of RLock() or RUnlock() starts or ends a watchdog goroutine,
\* changes lockedAt, the ticker or the cancellation channel, or changes the tag.
C19_SharedPathFrame ==
  [][\A t \in Threads : SharedStep(t) => UNCHANGED <<lockTag, wd>>]_vars

\* A reader is in RLock() while a writer holds the lock with a tag and an armed
\* watchdog.
C19_Witness ==
  \E t, u \in Threads :
    /\ pc[t] = "rl_acquire" /\ HoldsExclusive(u)
    /\ lockTag # NoTag /\ InFlight /\ tasks # {}

\* The thread's next statement lies in one of the blocks that hold callbacksMu.
InCallbacksBlock(t) ==
  pc[t] \in {"lk_before", "lk_after", "ul_before", "ul_send", "ul_after",
             "rl_before", "rl_after", "ru_before", "ru_after"}

\* The thread's next statement reads or writes m.lockTag: lock() stores the tag,
\* Unlock() clears it, and a default callback reads it for its log line.
AccessesTag(t) ==
  \/ pc[t] \in {"lk_after", "ul_cleartag"}
  \/ pc[t] \in {"lk_before", "ul_before", "ul_after", "rl_before", "rl_after",
                "ru_before", "ru_after"} /\ hooks["BeforeLock"] = "default"

\* C20 as claimed: a thread reads or writes the tag only inside a block that
\* holds callbacksMu.
C20_TagUnderGuard ==
  \A t \in Threads : (Alive /\ AccessesTag(t)) => InCallbacksBlock(t)

\* The thread is at an operation on the primitive: m.mu.Lock(), m.mu.Unlock(),
\* m.Mutex.mu.RLock() or m.Mutex.mu.RUnlock().
AtPrimitive(t) == pc[t] \in {"lk_acquire", "ul_release", "rl_acquire", "ru_release"}

\* C21: no thread holds callbacksMu while it acquires or releases the primitive;
\* a thread that holds callbacksMu across steps is in the hand-off of its default
\* BeforeUnlock.
C21_GuardNeverWaitsOnPrimitive ==
  /\ \A t \in Threads : AtPrimitive(t) => callbacksMu # t
  /\ callbacksMu # NoOne => pc[callbacksMu] = "ul_send"

\* A thread waits for the primitive, which another thread holds, while a third
\* party could take callbacksMu: the waiting thread does not hold it.
C21_Witness ==
  \E t, u \in Threads :
    /\ t # u /\ pc[t] = "lk_acquire" /\ ~MuLock(mu).ok
    /\ HoldsExclusive(u) /\ pc[u] = "ul_send" /\ callbacksMu = u
    /\ Fired(t, "BeforeLock") = 1

\* The thread is inside Unlock().
InUnlock(t) == pc[t] \in {"ul_before", "ul_send", "ul_cleartag", "ul_release", "ul_after"}

\* The thread waits in m.closeC <- struct{}{} and no goroutine exists that could
\* receive: none is started while the thread holds callbacksMu.
SendNeverReceived(t) == pc[t] = "ul_send" /\ tasks = {}

\* C22 as claimed: every Unlock() returns, whatever the configuration and
\* whether or not the primitive is held: no Unlock() waits on a hand-off that
\* nothing can receive, and none ends the process.
C22_UnlockReturns ==
  \A t \in Threads :
    InUnlock(t) => ~SendNeverReceived(t) /\ ~ReleasedUnheld(t)

\* The thread's next step can be taken.
CanStep(t) ==
  CASE pc[t] \in {"lk_before", "lk_after", "ul_before", "ul_after", "rl_before", "rl_after",
                  "ru_before", "ru_after"} -> callbacksMu = NoOne
    [] pc[t] = "lk_acquire" -> MuLock(mu).ok
    [] pc[t] = "rl_acquire" -> MuRLock(mu).ok
    [] pc[t] = "ul_send" -> \E k \in tasks : Receives(k, closeC)
    [] pc[t] = "idle" -> FALSE
    [] OTHER -> TRUE

\* The goroutine's next step can be taken.
TaskCanStep(k) == k.pc # "select" \/ ticker.C = 1

\* Some thread is inside a call and neither a thread nor a goroutine can step.
Deadlocked ==
  /\ Alive
  /\ \E t \in Threads : pc[t] # "idle"
  /\ \A t \in Threads : ~CanStep(t)
  /\ \A k \in tasks : ~TaskCanStep(k)

\* C23 as claimed: with default callbacks and warnAfter > 0 and well-paired
\* callers, no state is a deadlock and no call ends otherwise than by returning:
\* no Lock() leaves by a panic and the process is not ended.
C23_NoDeadlockAllReturn ==
  Arms => /\ ~Deadlocked
          /\ Alive
          /\ \A t \in Threads : pc[t] # "lk_panic"

\* The thread is between its AfterLock and the clearing of the tag in its
\* Unlock().
TagOwner(t) ==
  /\ op[t] \in ExclusiveOps
  /\ pc[t] \in {"lk_panic", "cs_read", "cs_write", "ul_before", "ul_send", "ul_cleartag"}

\* C24: from a thread's AfterLock until its BeforeUnlock has fired the tag is the
\* one the thread passed to LockWithTag, and absent if it called Lock(); its
\* AfterLock hook saw that same value.
C24_TagOfHolder ==
  \A t \in Threads :
    TagOwner(t) => lockTag = tagArg[t] /\ tagSeen[t].al = tagArg[t]

\* A thread holds the lock taken with Lock(), sees no tag, after another thread's
\* LockWithTag(x)...Unlock() cycle.
C24_Witness ==
  \E t, u \in Threads :
    /\ t # u /\ op[u] = "LockWithTag" /\ pc[u] \in {"ul_after", "idle"}
    /\ tagSeen[u].al = tagArg[u] /\ tagArg[u] # NoTag
    /\ op[t] = "Lock" /\ pc[t] = "ul_before" /\ lockTag = NoTag

====
